---- MODULE Spec2Model ----
(***************************************************************************)
(* Model of trx-push (src/main.go): a sequential program that loads        *)
(* config.yaml, logs in to obtain a JWT, reads the pending invoices from   *)
(* PostgreSQL and pushes each of them to an HTTP endpoint.                 *)
(*                                                                         *)
(* A Go string is modelled as a sequence of text pieces; "" is << >> and   *)
(* concatenation is \o.  A control byte is always a piece of its own.      *)
(* A Go error is a record with a "kind" field; nil is Nil.                 *)
(***************************************************************************)
EXTENDS Integers, Sequences, FiniteSets, TLC

VARIABLES
    pc,            \* position of the single goroutine in main / its callees
    file,          \* the content of config.yaml (environment, fixed for a run)
    config,        \* var config Config
    jwtToken,      \* var jwtToken string
    err,           \* the error returned by the last call of main
    transactions,  \* main's local: the slice returned by getTransactionsFromDB
    idx,           \* main's range loop: number of elements already visited
    txn,           \* main's loop variable (the current Transaction)
    req,           \* pushTransaction's local: the request built for client.Do
    resp,          \* pushTransaction's local: what client.Do returned
    loginResp,     \* what the login endpoint answered (loginAndGetToken's resp)
    outcome,       \* what each of the three stage calls returned to main
    db,            \* getTransactionsFromDB: the *sql.DB handle ("nil", "open", "closed")
    rows,          \* getTransactionsFromDB: the *sql.Rows cursor ("nil", "open", "closed")
    table,         \* environment: the invoice table when the query runs
    failAt,        \* environment: rows delivered before iteration breaks (-1: never)
    cursor,        \* rows already delivered by rows.Next
    acc,           \* getTransactionsFromDB's local slice "transactions"
    log,           \* lines written through package log
    stdout,        \* lines written by fmt.Printf
    exitStatus,    \* -1 while running, else the process exit status
    loginRequests, \* HTTP requests sent to the login endpoint
    dbQueries,     \* queries sent to the database
    pushCalls,     \* arguments of the calls of pushTransaction
    pushRequests   \* HTTP requests sent to the push endpoint

vars == <<pc, file, config, jwtToken, err, transactions, idx, txn, req, db, rows,
          table, failAt, cursor, acc, log, stdout, exitStatus,
          loginRequests, dbQueries, pushCalls, pushRequests, resp, loginResp,
          outcome>>

----------------------------------------------------------------------------
(* Bounds of the model *)

MaxRows == 2

(* Program constants *)

StatusOK == 200

PendingStatus == 1

----------------------------------------------------------------------------
(* Strings and errors *)

EmptyString == << >>

CTL == "\t"

Nil == [kind |-> "nil"]

Digits == <<"0", "1", "2", "3", "4", "5", "6", "7", "8", "9">>

IsDigit(c) == \E d \in 1..10 : Digits[d] = c

DigitValue(c) == (CHOOSE d \in 1..10 : Digits[d] = c) - 1

\* yaml.v2 resolves a plain scalar to an int when it is a decimal numeral
IsInt(s) == Len(s) > 0 /\ \A k \in 1..Len(s) : IsDigit(s[k])

RECURSIVE Atoi(_)
Atoi(s) == IF s = << >> THEN 0
           ELSE 10 * Atoi(SubSeq(s, 1, Len(s) - 1)) + DigitValue(s[Len(s)])

\* the %d verb of fmt.Sprintf, for a non-negative int
RECURSIVE Itoa(_)
Itoa(n) == IF n < 10 THEN <<Digits[n + 1]>>
           ELSE Itoa(n \div 10) \o <<Digits[(n % 10) + 1]>>

\* net/url.Parse rejects a URL that holds an ASCII control byte
stringContainsCTLByte(s) == \E k \in 1..Len(s) : s[k] = CTL

\* net/http's transport only speaks http and https
SupportedScheme(url) == Len(url) > 0 /\ url[1] \in {"http://", "https://"}

----------------------------------------------------------------------------
(* Config: src/main.go 16-31, and the files config.yaml may be *)

ZeroConfig ==
    [API |-> [LoginURL |-> EmptyString, PushURL |-> EmptyString,
              Username |-> EmptyString, Password |-> EmptyString],
     Database |-> [Host |-> EmptyString, Port |-> 0, User |-> EmptyString,
                   Password |-> EmptyString, DBName |-> EmptyString,
                   SSLMode |-> EmptyString]]

\* the yaml keys of the Config struct tags, as section.key paths
StringKeys == {"api.login_url", "api.push_url", "api.username", "api.password",
               "database.host", "database.user", "database.password",
               "database.dbname", "database.sslmode"}

IntKeys == {"database.port"}

FullDoc ==
    [k \in StringKeys \cup IntKeys |->
        CASE k = "api.login_url"     -> <<"http://", "api/login">>
          [] k = "api.push_url"      -> <<"http://", "api/push">>
          [] k = "api.username"      -> <<"user@x">>
          [] k = "api.password"      -> <<"secret">>
          [] k = "database.host"     -> <<"dbhost">>
          [] k = "database.port"     -> <<"5", "4">>
          [] k = "database.user"     -> <<"pg">>
          [] k = "database.password" -> <<"pgpw">>
          [] k = "database.dbname"   -> <<"erp">>
          [] k = "database.sslmode"  -> <<"disable">>]

\* a document whose database.port is not an integer
BadPortDoc == [FullDoc EXCEPT !["database.port"] = <<"5", "x">>]

\* a document that only has the two URLs of the api section
ApiOnlyDoc ==
    [k \in {"api.login_url", "api.push_url"} |->
        IF k = "api.login_url" THEN <<"https://", "api/login">>
                               ELSE <<"https://", "api/push">>]

\* a document whose login_url holds a control byte
CtlLoginDoc == [FullDoc EXCEPT !["api.login_url"] = <<"http://", "api", CTL, "login">>]

\* a document whose push_url has no scheme
NoSchemeDoc == [FullDoc EXCEPT !["api.push_url"] = <<"api/push">>]

Docs == {FullDoc, BadPortDoc, ApiOnlyDoc, CtlLoginDoc, NoSchemeDoc}

Files ==
    { [kind |-> "missing", doc |-> << >>],    \* os.Open fails
      [kind |-> "syntax", doc |-> << >>],     \* not YAML: the parser fails
      [kind |-> "empty", doc |-> << >>] }     \* no document: Decode returns io.EOF
    \cup { [kind |-> "doc", doc |-> d] : d \in Docs }

\* yaml.v2 (*decoder).unmarshal into a Config: every key of the document is
\* decoded into its field; a scalar that does not fit the field's type is
\* skipped and recorded in terrors, and decoding goes on with the other keys.
SetField(out, k, v) ==
    CASE k = "api.login_url"     -> [out EXCEPT !.API.LoginURL = v]
      [] k = "api.push_url"      -> [out EXCEPT !.API.PushURL = v]
      [] k = "api.username"      -> [out EXCEPT !.API.Username = v]
      [] k = "api.password"      -> [out EXCEPT !.API.Password = v]
      [] k = "database.host"     -> [out EXCEPT !.Database.Host = v]
      [] k = "database.port"     -> [out EXCEPT !.Database.Port = v]
      [] k = "database.user"     -> [out EXCEPT !.Database.User = v]
      [] k = "database.password" -> [out EXCEPT !.Database.Password = v]
      [] k = "database.dbname"   -> [out EXCEPT !.Database.DBName = v]
      [] k = "database.sslmode"  -> [out EXCEPT !.Database.SSLMode = v]

Fits(k, scalar) == k \in StringKeys \/ IsInt(scalar)

Decoded(k, scalar) == IF k \in IntKeys THEN Atoi(scalar) ELSE scalar

RECURSIVE unmarshalKeys(_, _, _)
unmarshalKeys(doc, keys, out) ==
    IF keys = {} THEN out
    ELSE LET k == CHOOSE x \in keys : TRUE
             next == IF Fits(k, doc[k]) THEN SetField(out, k, Decoded(k, doc[k]))
                     ELSE out
         IN  unmarshalKeys(doc, keys \ {k}, next)

unmarshal(doc, out) ==
    [out     |-> unmarshalKeys(doc, DOMAIN doc, out),
     terrors |-> {k \in DOMAIN doc : ~Fits(k, doc[k])}]

\* (*yaml.Decoder).Decode(&config): the error it returns and the value it
\* leaves in config.  The document is parsed before anything is written.
Decode(f, out) ==
    CASE f.kind = "syntax" -> [err |-> [kind |-> "yaml", what |-> "syntax"], out |-> out]
      [] f.kind = "empty"  -> [err |-> [kind |-> "yaml", what |-> "EOF"], out |-> out]
      [] f.kind = "doc"    ->
            LET u == unmarshal(f.doc, out)
            IN  [err |-> IF u.terrors # {}
                         THEN [kind |-> "yaml", what |-> "TypeError"]
                         ELSE Nil,
                 out |-> u.out]

----------------------------------------------------------------------------
(* Log lines and errors *)

IsNil(e) == e.kind = "nil"

\* the three calls of main that are fatal when they fail
Stages == {"loadConfig", "loginAndGetToken", "getTransactionsFromDB"}

Returned(e) == IF IsNil(e) THEN "ok" ELSE "failed"

\* fmt.Errorf(format, args...)
Errorf(format, args) == [kind |-> "errorf", fmt |-> format, args |-> args]

\* one line of package log: the format and its operands
Line(format, args) == [fmt |-> format, args |-> args]

----------------------------------------------------------------------------
(* The environment: HTTP servers and the database *)

Tokens == { <<"abc123">>, <<"tok2">> }

StringField(name, s) == [name |-> name, type |-> "string", str |-> s]

OtherField(name, t) == [name |-> name, type |-> t, str |-> EmptyString]

\* response bodies of the login endpoint: text that is not JSON, and objects
LoginBodies ==
    { [valid |-> FALSE, fields |-> {}],
      [valid |-> TRUE, fields |-> {}],
      [valid |-> TRUE, fields |-> {StringField("error", <<"denied">>)}],
      [valid |-> TRUE, fields |-> {OtherField("access_token", "number")}],
      [valid |-> TRUE, fields |-> {OtherField("access_token", "null")}] }
    \cup { [valid |-> TRUE, fields |-> {StringField("access_token", t)}] : t \in Tokens }

NoBody == [valid |-> FALSE, fields |-> {}]

LoginStatuses == {StatusOK, 401}

PushStatuses == {StatusOK, 201, 500}

\* what (*http.Client).Do and the body reader can produce
HTTPOutcomes(statuses, bodies) ==
    { [kind |-> "error", status |-> 0, readable |-> FALSE, body |-> NoBody] }
    \cup { [kind |-> "resp", status |-> st, readable |-> rd, body |-> b] :
             st \in statuses, rd \in BOOLEAN, b \in bodies }

\* no call of client.Do has returned yet
NoResponse == [kind |-> "none", status |-> 0, readable |-> FALSE, body |-> NoBody]

\* a request with an unsupported scheme never gets a response
Feasible(url, r) == SupportedScheme(url) \/ r.kind = "error"

\* invoice numbers stored in the database
IDs == { <<"INV-1">>, <<"INV-2">>, <<"INV", CTL, "3">> }

InvoiceRows ==
    { [number |-> n, null |-> FALSE, status |-> PendingStatus] : n \in IDs }
    \cup { [number |-> EmptyString, null |-> TRUE, status |-> PendingStatus],
           [number |-> <<"INV-1">>, null |-> FALSE, status |-> 0] }

Tables == UNION { [1..n -> InvoiceRows] : n \in 0..MaxRows }

\* SELECT number FROM invoice WHERE status = 1
RECURSIVE Select(_)
Select(t) ==
    IF t = << >> THEN << >>
    ELSE IF t[1].status = PendingStatus
         THEN <<[number |-> t[1].number, null |-> t[1].null]>> \o Select(Tail(t))
         ELSE Select(Tail(t))

resultSet == Select(table)

----------------------------------------------------------------------------
(* Init *)

Init ==
    /\ pc = "loadConfig"
    /\ file \in Files
    /\ config = ZeroConfig
    /\ jwtToken = EmptyString
    /\ err = Nil
    /\ transactions = << >>
    /\ idx = 0
    /\ txn = [InvoiceID |-> EmptyString]
    /\ req = [method |-> "", url |-> EmptyString, Authorization |-> EmptyString]
    /\ db = "nil"
    /\ rows = "nil"
    /\ table = << >>
    /\ failAt = -1
    /\ cursor = 0
    /\ acc = << >>
    /\ log = << >>
    /\ stdout = << >>
    /\ exitStatus = -1
    /\ loginRequests = << >>
    /\ dbQueries = << >>
    /\ pushCalls = << >>
    /\ pushRequests = << >>
    /\ resp = NoResponse
    /\ loginResp = NoResponse
    /\ outcome = [s \in Stages |-> "pending"]

----------------------------------------------------------------------------
(* loadConfig: src/main.go 74-86 *)

\* the error loadConfig returns and the value it leaves in config
loadConfigResult(f, cfg) ==
    IF f.kind = "missing"
    THEN [err |-> [kind |-> "os.Open", what |-> "ENOENT"], out |-> cfg]
    ELSE Decode(f, cfg)

loadConfig ==
    /\ pc = "loadConfig"
    /\ LET r == loadConfigResult(file, config)
       IN  /\ config' = r.out
           /\ err' = r.err
           /\ outcome' = [outcome EXCEPT !["loadConfig"] = Returned(r.err)]
    /\ pc' = "checkConfig"
    /\ UNCHANGED <<file, jwtToken, transactions, idx, txn, req, db, rows, table,
                   failAt, cursor, acc, log, stdout, exitStatus, loginRequests,
                   dbQueries, pushCalls, pushRequests,
                   resp, loginResp>>

\* log.Fatalf: one line, then os.Exit(1)
Fatalf(format, args) ==
    /\ log' = Append(log, Line(format, args))
    /\ exitStatus' = 1
    /\ pc' = "exited"

\* main, src/main.go 48-50
checkConfig ==
    /\ pc = "checkConfig"
    /\ IF ~IsNil(err)
       THEN Fatalf("Failed to load config: %v", <<err>>)
       ELSE /\ pc' = "login"
            /\ UNCHANGED <<log, exitStatus>>
    /\ UNCHANGED <<file, config, jwtToken, err, transactions, idx, txn, req, db,
                   rows, table, failAt, cursor, acc, stdout, loginRequests,
                   dbQueries, pushCalls, pushRequests,
                   resp, loginResp, outcome>>

----------------------------------------------------------------------------
(* loginAndGetToken: src/main.go 142-181 *)

\* json.Unmarshal(body, &loginResp) for LoginResponse{Token `json:"access_token"`}
jsonUnmarshal(body) ==
    IF ~body.valid
    THEN [err |-> [kind |-> "json", what |-> "SyntaxError"], Token |-> EmptyString]
    ELSE LET m == {f \in body.fields : f.name = "access_token"}
         IN  IF m = {}
             THEN [err |-> Nil, Token |-> EmptyString]
             ELSE LET f == CHOOSE x \in m : TRUE
                  IN  CASE f.type = "string" -> [err |-> Nil, Token |-> f.str]
                        [] f.type = "null"   -> [err |-> Nil, Token |-> EmptyString]
                        [] OTHER ->
                             [err |-> [kind |-> "json", what |-> "UnmarshalTypeError"],
                              Token |-> EmptyString]

\* http.NewRequest("POST", config.API.LoginURL, jsonData), Content-Type set
loginRequest(cfg) ==
    [method |-> "POST", url |-> cfg.API.LoginURL,
     ContentType |-> "application/json",
     body |-> [email |-> cfg.API.Username, password |-> cfg.API.Password]]

\* Variant of loginResult: the body is decoded and the token stored before the
\* status code is looked at
loginResultStoreFirst(cfg, tok, r) ==
    LET fail(e, t, sent) == [err |-> e, jwtToken |-> t, sent |-> sent, lines |-> << >>]
        rq == loginRequest(cfg)
    IN  IF stringContainsCTLByte(cfg.API.LoginURL)
        THEN fail([kind |-> "url", what |-> "invalid control character in URL"], tok, << >>)
        ELSE IF r.kind = "error"
        THEN fail([kind |-> "transport", what |-> "Do"], tok, <<rq>>)
        ELSE IF ~r.readable
        THEN fail([kind |-> "transport", what |-> "ReadAll"], tok, <<rq>>)
        ELSE LET u == jsonUnmarshal(r.body)
             IN  IF ~IsNil(u.err)
                 THEN fail(u.err, tok, <<rq>>)
                 ELSE IF r.status # StatusOK
                 THEN fail(Errorf("failed to login, status: %d", <<r.status>>),
                           u.Token, <<rq>>)
                 ELSE [err |-> Nil, jwtToken |-> u.Token, sent |-> <<rq>>,
                       lines |-> <<Line("Successfully acquired JWT token: %s",
                                        <<u.Token>>)>>]

\* The whole of loginAndGetToken for the server's answer r: the error it
\* returns, the value jwtToken has afterwards, the requests sent and the
\* lines logged.
loginResult(cfg, tok, r) ==
    LET fail(e, sent) == [err |-> e, jwtToken |-> tok, sent |-> sent, lines |-> << >>]
        rq == loginRequest(cfg)
    IN  IF stringContainsCTLByte(cfg.API.LoginURL)
        THEN fail([kind |-> "url", what |-> "invalid control character in URL"], << >>)
        ELSE IF r.kind = "error"
        THEN fail([kind |-> "transport", what |-> "Do"], <<rq>>)
        ELSE IF ~r.readable
        THEN fail([kind |-> "transport", what |-> "ReadAll"], <<rq>>)
        ELSE IF r.status # StatusOK
        THEN fail(Errorf("failed to login, status: %d", <<r.status>>), <<rq>>)
        ELSE LET u == jsonUnmarshal(r.body)
             IN  IF ~IsNil(u.err)
                 THEN fail(u.err, <<rq>>)
                 ELSE [err |-> Nil, jwtToken |-> u.Token, sent |-> <<rq>>,
                       lines |-> <<Line("Successfully acquired JWT token: %s",
                                        <<u.Token>>)>>]

loginAndGetToken ==
    /\ pc = "login"
    /\ \E r \in HTTPOutcomes(LoginStatuses, LoginBodies) :
          /\ Feasible(config.API.LoginURL, r)
          /\ LET res == loginResult(config, jwtToken, r)
             IN  /\ jwtToken' = res.jwtToken
                 /\ err' = res.err
                 /\ loginRequests' = loginRequests \o res.sent
                 /\ log' = log \o res.lines
                 /\ outcome' = [outcome EXCEPT !["loginAndGetToken"] = Returned(res.err)]
                 /\ loginResp' = IF res.sent = << >> THEN NoResponse ELSE r
    /\ pc' = "checkLogin"
    /\ UNCHANGED <<file, config, transactions, idx, txn, req, db, rows, table,
                   failAt, cursor, acc, stdout, exitStatus, dbQueries, pushCalls,
                   pushRequests,
                   resp>>

\* Variant of checkLogin: the failure is logged with Printf and main goes on
checkLoginNoExit ==
    /\ pc = "checkLogin"
    /\ log' = IF ~IsNil(err)
              THEN Append(log, Line("Failed to login and get JWT token: %v", <<err>>))
              ELSE log
    /\ pc' = "sqlOpen"
    /\ UNCHANGED exitStatus
    /\ UNCHANGED <<file, config, jwtToken, err, transactions, idx, txn, req, db,
                   rows, table, failAt, cursor, acc, stdout, loginRequests,
                   dbQueries, pushCalls, pushRequests,
                   resp, loginResp, outcome>>

\* main, src/main.go 53-55
checkLogin ==
    /\ pc = "checkLogin"
    /\ IF ~IsNil(err)
       THEN Fatalf("Failed to login and get JWT token: %v", <<err>>)
       ELSE /\ pc' = "sqlOpen"
            /\ UNCHANGED <<log, exitStatus>>
    /\ UNCHANGED <<file, config, jwtToken, err, transactions, idx, txn, req, db,
                   rows, table, failAt, cursor, acc, stdout, loginRequests,
                   dbQueries, pushCalls, pushRequests,
                   resp, loginResp, outcome>>

----------------------------------------------------------------------------
(* getTransactionsFromDB: src/main.go 89-115 *)

\* fmt.Sprintf("host=%s port=%d user=%s password=%s dbname=%s sslmode=%s", ...)
psqlInfo(cfg) ==
    <<"host=">> \o cfg.Database.Host \o <<" port=">> \o Itoa(cfg.Database.Port)
    \o <<" user=">> \o cfg.Database.User \o <<" password=">> \o cfg.Database.Password
    \o <<" dbname=">> \o cfg.Database.DBName \o <<" sslmode=">> \o cfg.Database.SSLMode

\* return of getTransactionsFromDB to main's line 58, after the deferred calls
fetchReturn(result, e) ==
    /\ transactions' = result
    /\ err' = e
    /\ outcome' = [outcome EXCEPT !["getTransactionsFromDB"] = Returned(e)]
    /\ pc' = "checkFetch"

\* lines 90-97: sql.Open either hands out a handle or rejects the DSN
sqlOpen ==
    /\ pc = "sqlOpen"
    /\ \/ /\ db' = "open"
          /\ pc' = "dbQuery"
          /\ UNCHANGED <<transactions, err, outcome>>
       \/ /\ fetchReturn(<< >>, [kind |-> "sql", what |-> "Open"])
          /\ UNCHANGED db
    /\ UNCHANGED <<file, config, jwtToken, idx, txn, req, rows, table, failAt,
                   cursor, acc, log, stdout, exitStatus, loginRequests, dbQueries,
                   pushCalls, pushRequests,
                   resp, loginResp>>

\* lines 99-103 and 105: the query is sent; the server fails it (no connection,
\* bad query) or answers with the matching rows of the table as it is now
dbQuery ==
    /\ pc = "dbQuery"
    /\ dbQueries' = Append(dbQueries,
                           [dsn |-> psqlInfo(config),
                            query |-> "SELECT number FROM invoice WHERE status = 1"])
    /\ \/ /\ fetchReturn(<< >>, [kind |-> "sql", what |-> "Query"])
          /\ db' = "closed"
          /\ UNCHANGED <<rows, table, failAt, cursor, acc>>
       \/ \E t \in Tables :
             \E fa \in -1 .. Len(Select(t)) :
                /\ table' = t
                /\ failAt' = fa
                /\ rows' = "open"
                /\ cursor' = 0
                /\ acc' = << >>
                /\ pc' = "rowsNext"
                /\ UNCHANGED <<db, transactions, err, outcome>>
    /\ UNCHANGED <<file, config, jwtToken, idx, txn, req, log, stdout, exitStatus,
                   loginRequests, pushCalls, pushRequests,
                   resp, loginResp>>

\* rows.Next(): TRUE when another row is delivered; FALSE at the end of the
\* result set and also when iteration breaks with an error (kept in rows.Err())
rowsNextValue == cursor # failAt /\ cursor < Len(resultSet)

\* rows.Scan(&number) fails on a NULL number
scanFails(row) == row.null

\* lines 106-112, one iteration whose Scan succeeds
rowsNextAppend ==
    /\ pc = "rowsNext"
    /\ rowsNextValue
    /\ ~scanFails(resultSet[cursor + 1])
    /\ cursor' = cursor + 1
    /\ acc' = Append(acc, [InvoiceID |-> resultSet[cursor + 1].number])
    /\ UNCHANGED <<pc, file, config, jwtToken, err, transactions, idx, txn, req,
                   db, rows, table, failAt, log, stdout, exitStatus, loginRequests,
                   dbQueries, pushCalls, pushRequests,
                   resp, loginResp, outcome>>

\* Variant of rowsScanError: the error return leaves without closing anything
rowsScanErrorNoClose ==
    /\ pc = "rowsNext"
    /\ rowsNextValue
    /\ scanFails(resultSet[cursor + 1])
    /\ cursor' = cursor + 1
    /\ fetchReturn(<< >>, [kind |-> "sql", what |-> "Scan"])
    /\ UNCHANGED <<rows, db>>
    /\ UNCHANGED <<file, config, jwtToken, idx, txn, req, table, failAt, acc, log,
                   stdout, exitStatus, loginRequests, dbQueries, pushCalls,
                   pushRequests, resp, loginResp>>

\* lines 106-110, an iteration whose Scan fails: return nil, err; then the
\* deferred rows.Close() and db.Close()
rowsScanError ==
    /\ pc = "rowsNext"
    /\ rowsNextValue
    /\ scanFails(resultSet[cursor + 1])
    /\ cursor' = cursor + 1
    /\ fetchReturn(<< >>, [kind |-> "sql", what |-> "Scan"])
    /\ rows' = "closed"
    /\ db' = "closed"
    /\ UNCHANGED <<file, config, jwtToken, idx, txn, req, table, failAt, acc, log,
                   stdout, exitStatus, loginRequests, dbQueries, pushCalls,
                   pushRequests,
                   resp, loginResp>>

\* lines 106 and 114: rows.Next() is false, return transactions, nil; then the
\* deferred rows.Close() and db.Close()
rowsDone ==
    /\ pc = "rowsNext"
    /\ ~rowsNextValue
    /\ fetchReturn(acc, Nil)
    /\ rows' = "closed"
    /\ db' = "closed"
    /\ UNCHANGED <<file, config, jwtToken, idx, txn, req, table, failAt, cursor,
                   acc, log, stdout, exitStatus, loginRequests, dbQueries,
                   pushCalls, pushRequests,
                   resp, loginResp>>

\* main, src/main.go 59-61
checkFetch ==
    /\ pc = "checkFetch"
    /\ IF ~IsNil(err)
       THEN Fatalf("Failed to get transactions from the database: %v", <<err>>)
       ELSE /\ pc' = "loop"
            /\ UNCHANGED <<log, exitStatus>>
    /\ UNCHANGED <<file, config, jwtToken, err, transactions, idx, txn, req, db,
                   rows, table, failAt, cursor, acc, stdout, loginRequests,
                   dbQueries, pushCalls, pushRequests,
                   resp, loginResp, outcome>>

----------------------------------------------------------------------------
(* The push loop: src/main.go 64-70, and pushTransaction: 118-139 *)

\* line 64, next element: txn is bound and pushTransaction(txn.InvoiceID) called
loopNext ==
    /\ pc = "loop"
    /\ idx < Len(transactions)
    /\ txn' = transactions[idx + 1]
    /\ idx' = idx + 1
    /\ pushCalls' = Append(pushCalls, transactions[idx + 1].InvoiceID)
    /\ pc' = "pushBuild"
    /\ resp' = NoResponse
    /\ UNCHANGED <<file, config, jwtToken, err, transactions, req, db, rows, table,
                   failAt, cursor, acc, log, stdout, exitStatus, loginRequests,
                   dbQueries, pushRequests,
                   loginResp, outcome>>

\* Variant of loopDone: the exit status tells whether the last push failed
loopDoneStatusFromErr ==
    /\ pc = "loop"
    /\ idx >= Len(transactions)
    /\ exitStatus' = IF IsNil(err) THEN 0 ELSE 1
    /\ pc' = "exited"
    /\ UNCHANGED <<file, config, jwtToken, err, transactions, idx, txn, req, db,
                   rows, table, failAt, cursor, acc, log, stdout, loginRequests,
                   dbQueries, pushCalls, pushRequests, resp, loginResp, outcome>>

\* line 64 with the range exhausted, and line 71: main returns, exit status 0
loopDone ==
    /\ pc = "loop"
    /\ idx >= Len(transactions)
    /\ exitStatus' = 0
    /\ pc' = "exited"
    /\ UNCHANGED <<file, config, jwtToken, err, transactions, idx, txn, req, db,
                   rows, table, failAt, cursor, acc, log, stdout, loginRequests,
                   dbQueries, pushCalls, pushRequests,
                   resp, loginResp, outcome>>

\* fmt.Sprintf("%s?invoice_number=%s", config.API.PushURL, invoiceID)
pushURL(cfg, invoiceID) == cfg.API.PushURL \o <<"?invoice_number=">> \o invoiceID

\* Variant of pushRequest: the URL is the bare endpoint, without the record
pushRequestNoInvoice(cfg, tok, invoiceID) ==
    [method |-> "POST", url |-> cfg.API.PushURL,
     Authorization |-> <<"Bearer ">> \o tok]

\* lines 121 and 125: the request pushTransaction builds
pushRequest(cfg, tok, invoiceID) ==
    [method |-> "POST", url |-> pushURL(cfg, invoiceID),
     Authorization |-> <<"Bearer ">> \o tok]

\* lines 119-125
pushBuild ==
    /\ pc = "pushBuild"
    /\ stdout' = Append(stdout, Line("URL push: %s\n", <<pushURL(config, txn.InvoiceID)>>))
    /\ IF stringContainsCTLByte(pushURL(config, txn.InvoiceID))
       THEN /\ err' = [kind |-> "url", what |-> "invalid control character in URL"]
            /\ pc' = "logPush"
            /\ UNCHANGED req
       ELSE /\ req' = pushRequest(config, jwtToken, txn.InvoiceID)
            /\ pc' = "pushDo"
            /\ UNCHANGED err
    /\ UNCHANGED <<file, config, jwtToken, transactions, idx, txn, db, rows, table,
                   failAt, cursor, acc, log, exitStatus, loginRequests, dbQueries,
                   pushCalls, pushRequests,
                   resp, loginResp, outcome>>

\* Variant of pushResult: every 2xx status counts as a success
pushResultAny2xx(invoiceID, r) ==
    IF r.kind = "error"
    THEN [kind |-> "transport", what |-> "Do"]
    ELSE IF r.status < 200 \/ r.status >= 300
    THEN Errorf("failed to push transaction with invoice_id %s, status: %d",
                <<invoiceID, r.status>>)
    ELSE Nil

\* lines 128-138: the error pushTransaction returns for the server's answer r
pushResult(invoiceID, r) ==
    IF r.kind = "error"
    THEN [kind |-> "transport", what |-> "Do"]
    ELSE IF r.status # StatusOK
    THEN Errorf("failed to push transaction with invoice_id %s, status: %d",
                <<invoiceID, r.status>>)
    ELSE Nil

\* lines 127-138
pushDo ==
    /\ pc = "pushDo"
    /\ pushRequests' = Append(pushRequests, req)
    /\ \E r \in HTTPOutcomes(PushStatuses, {NoBody}) :
          /\ Feasible(req.url, r)
          /\ r.kind = "error" \/ r.readable    \* the body is never read
          /\ resp' = r
          /\ err' = pushResult(txn.InvoiceID, r)
    /\ pc' = "logPush"
    /\ UNCHANGED <<file, config, jwtToken, transactions, idx, txn, req, db, rows,
                   table, failAt, cursor, acc, log, stdout, exitStatus,
                   loginRequests, dbQueries, pushCalls,
                   loginResp, outcome>>

\* the line main logs for the error pushTransaction returned (lines 65-69)
outcomeLine(invoiceID, e) ==
    IF ~IsNil(e)
    THEN Line("Failed to push transaction with invoice_id %s: %v", <<invoiceID, e>>)
    ELSE Line("Successfully pushed transaction with invoice_id %s", <<invoiceID>>)

\* Variant of logPush: the loop is left at the first failed push
logPushBreakOnError ==
    /\ pc = "logPush"
    /\ log' = Append(log, outcomeLine(txn.InvoiceID, err))
    /\ pc' = "loop"
    /\ idx' = IF IsNil(err) THEN idx ELSE Len(transactions)
    /\ UNCHANGED <<file, config, jwtToken, err, transactions, txn, req, db,
                   rows, table, failAt, cursor, acc, stdout, exitStatus,
                   loginRequests, dbQueries, pushCalls, pushRequests,
                   resp, loginResp, outcome>>

\* lines 65-69
logPush ==
    /\ pc = "logPush"
    /\ log' = Append(log, outcomeLine(txn.InvoiceID, err))
    /\ pc' = "loop"
    /\ UNCHANGED <<file, config, jwtToken, err, transactions, idx, txn, req, db,
                   rows, table, failAt, cursor, acc, stdout, exitStatus,
                   loginRequests, dbQueries, pushCalls, pushRequests,
                   resp, loginResp, outcome>>

----------------------------------------------------------------------------
(* The program *)

Next ==
    \/ loadConfig
    \/ checkConfig
    \/ loginAndGetToken
    \/ checkLogin
    \/ sqlOpen
    \/ dbQuery
    \/ rowsNextAppend
    \/ rowsScanError
    \/ rowsDone
    \/ checkFetch
    \/ loopNext
    \/ loopDone
    \/ pushBuild
    \/ pushDo
    \/ logPush

Spec == Init /\ [][Next]_vars

\* Every call returns and the goroutine is always scheduled: a step that can
\* be taken is eventually taken.
FairSpec == Spec /\ WF_vars(Next)

----------------------------------------------------------------------------
(* Properties *)

SuccessFmt == "Successfully pushed transaction with invoice_id %s"

FailureFmt == "Failed to push transaction with invoice_id %s: %v"

IsOutcomeLine(l) == l.fmt \in {SuccessFmt, FailureFmt}

OutcomeLines == SelectSeq(log, IsOutcomeLine)

IdsOf(ts) == [k \in 1..Len(ts) |-> ts[k].InvoiceID]

InPush == pc \in {"pushBuild", "pushDo", "logPush"}

\* the string value of the access_token field of a JSON object, "" without one
AccessToken(body) ==
    LET m == {f \in body.fields : f.name = "access_token" /\ f.type = "string"}
    IN  IF m = {} THEN EmptyString ELSE (CHOOSE f \in m : TRUE).str

HasAccessToken(body) ==
    \E f \in body.fields : f.name = "access_token" /\ f.type = "string"

\* C1: the stages run in the order loadConfig, loginAndGetToken,
\* getTransactionsFromDB, push loop, and a stage that has not returned success
\* (not yet, or never because it failed) keeps every later stage from acting:
\* no login request before the configuration is loaded, no database handle or
\* query before the login succeeded, no push call before the fetch succeeded.
C1_StagesInOrderFailureHalts ==
    /\ outcome["loadConfig"] # "ok" =>
          /\ loginRequests = << >>
          /\ outcome["loginAndGetToken"] = "pending"
    /\ outcome["loginAndGetToken"] # "ok" =>
          /\ dbQueries = << >>
          /\ db = "nil"
          /\ outcome["getTransactionsFromDB"] = "pending"
    /\ outcome["getTransactionsFromDB"] # "ok" =>
          /\ pushCalls = << >>
          /\ pushRequests = << >>
    /\ \A s \in Stages : outcome[s] = "failed" /\ pc \notin {"checkConfig", "checkLogin", "checkFetch"}
          => pc = "exited"

\* a run that died on a failed login after the request was sent
C1_Witness ==
    /\ pc = "exited"
    /\ outcome["loginAndGetToken"] = "failed"
    /\ loginRequests # << >>
    /\ dbQueries = << >>

\* C2: once the fetch returned n records, pushTransaction is called for the
\* first idx records, in fetched order, one call per occurrence, whatever the
\* earlier calls returned; the run ends normally only after all n calls.
C2_OnePushPerRecordInOrder ==
    /\ outcome["getTransactionsFromDB"] = "ok" =>
          /\ idx <= Len(transactions)
          /\ pushCalls = SubSeq(IdsOf(transactions), 1, idx)
    /\ exitStatus = 0 => pushCalls = IdsOf(transactions)

\* the same record fetched twice and pushed twice, the first push having failed
C2_Witness ==
    /\ exitStatus = 0
    /\ Len(transactions) = 2
    /\ transactions[1] = transactions[2]
    /\ Len(pushCalls) = 2
    /\ OutcomeLines[1].fmt = FailureFmt

\* C3: whenever a push call is being attempted the session token is non-empty.
C3_TokenPopulatedAtPush ==
    pc \in {"pushBuild", "pushDo"} => jwtToken # EmptyString

\* C4: loginAndGetToken returns an error and leaves jwtToken empty when the
\* request could not be made or sent, the body could not be read, the status
\* is not 200 or the body is not JSON; jwtToken is set only on success, to the
\* access_token of the response.
C4_LoginErrorLeavesTokenUnset ==
    outcome["loginAndGetToken"] # "pending" =>
        LET bad == \/ loginResp.kind \in {"none", "error"}
                   \/ ~loginResp.readable
                   \/ loginResp.status # StatusOK
                   \/ ~loginResp.body.valid
        IN  /\ bad => outcome["loginAndGetToken"] = "failed"
            /\ outcome["loginAndGetToken"] = "failed" => jwtToken = EmptyString
            /\ outcome["loginAndGetToken"] = "ok" =>
                  jwtToken = AccessToken(loginResp.body)

\* a 401 answer that carries a token all the same: error, token still unset
C4_Witness ==
    /\ outcome["loginAndGetToken"] = "failed"
    /\ loginResp.kind = "resp"
    /\ loginResp.status = 401
    /\ HasAccessToken(loginResp.body)
    /\ jwtToken = EmptyString

\* C5: the process terminates, with status 0 exactly when loadConfig,
\* loginAndGetToken and getTransactionsFromDB all returned success, however
\* many pushes failed, and with a non-zero status otherwise.
C5_TerminatesWithStatus ==
    /\ <>(pc = "exited")
    /\ [](pc = "exited" =>
            /\ exitStatus >= 0
            /\ exitStatus = 0 <=> \A s \in Stages : outcome[s] = "ok")
    /\ [](pc # "exited" => exitStatus = -1)

\* a normal exit after two pushes that both failed
C5_Witness ==
    /\ pc = "exited"
    /\ exitStatus = 0
    /\ Len(transactions) = 2
    /\ Len(OutcomeLines) = 2
    /\ \A k \in 1..2 : OutcomeLines[k].fmt = FailureFmt

\* C6: getTransactionsFromDB returns either success with one Transaction per
\* row of the result set, in row order, or an error and no sequence.
C6_FetchCompleteOrError ==
    /\ outcome["getTransactionsFromDB"] = "ok" =>
          transactions = [k \in 1..Len(resultSet) |-> [InvoiceID |-> resultSet[k].number]]
    /\ outcome["getTransactionsFromDB"] = "failed" => transactions = << >>

\* C7: the database handle and the row cursor are open only inside
\* getTransactionsFromDB: once it has returned, by any path, neither is open.
C7_DatabaseReleasedAfterFetch ==
    /\ pc \notin {"dbQuery", "rowsNext"} => db # "open" /\ rows # "open"
    /\ outcome["getTransactionsFromDB"] # "pending" => db # "open" /\ rows # "open"

\* the process has exited on a Scan error, handle and cursor closed
C7_Witness ==
    /\ pc = "exited"
    /\ exitStatus = 1
    /\ err.kind = "sql"
    /\ err.what = "Scan"
    /\ db = "closed"
    /\ rows = "closed"

GetField(cfg, k) ==
    CASE k = "api.login_url"     -> cfg.API.LoginURL
      [] k = "api.push_url"      -> cfg.API.PushURL
      [] k = "api.username"      -> cfg.API.Username
      [] k = "api.password"      -> cfg.API.Password
      [] k = "database.host"     -> cfg.Database.Host
      [] k = "database.port"     -> Itoa(cfg.Database.Port)
      [] k = "database.user"     -> cfg.Database.User
      [] k = "database.password" -> cfg.Database.Password
      [] k = "database.dbname"   -> cfg.Database.DBName
      [] k = "database.sslmode"  -> cfg.Database.SSLMode

\* C8: when loadConfig fails config keeps its zero value in every field; when
\* it succeeds every field present in the file has the file's value.
C8_NoPartialConfig ==
    /\ outcome["loadConfig"] = "failed" => config = ZeroConfig
    /\ outcome["loadConfig"] = "ok" =>
          \A k \in DOMAIN file.doc : GetField(config, k) = file.doc[k]

\* C9: every record whose push has returned has exactly one outcome line, in
\* order, naming its invoice id; the line is the success line exactly when the
\* response status is 200, and else the failure line with the invoice id and
\* the cause (the status code for a non-200 response); nothing else is logged
\* in or after the loop.
C9_OneOutcomeLinePerRecord ==
    /\ [](/\ Len(OutcomeLines) = (IF InPush THEN idx - 1 ELSE idx)
          /\ \A k \in 1..Len(OutcomeLines) :
                OutcomeLines[k].args[1] = transactions[k].InvoiceID
          /\ exitStatus = 0 => Len(log) = 1 + Len(transactions))
    /\ [][pc = "logPush" =>
            LET l == log'[Len(log')]
                ok == resp.kind = "resp" /\ resp.status = StatusOK
            IN  /\ log' = Append(log, l)
                /\ l.fmt = SuccessFmt <=> ok
                /\ ~ok => /\ l.fmt = FailureFmt
                          /\ l.args[1] = txn.InvoiceID
                          /\ ~IsNil(l.args[2])
                          /\ resp.kind = "resp" =>
                                /\ l.args[2].kind = "errorf"
                                /\ l.args[2].args = <<txn.InvoiceID, resp.status>>]_vars

\* INV-1 answered 200 and INV-2 answered 500: a success line, then a failure
\* line naming INV-2 and 500, and a normal exit
C9_Witness ==
    /\ exitStatus = 0
    /\ IdsOf(transactions) = << <<"INV-1">>, <<"INV-2">> >>
    /\ Len(OutcomeLines) = 2
    /\ OutcomeLines[1].fmt = SuccessFmt
    /\ OutcomeLines[2].fmt = FailureFmt
    /\ OutcomeLines[2].args[2].kind = "errorf"
    /\ OutcomeLines[2].args[2].args = << <<"INV-2">>, 500 >>

\* C10: at most one login request is sent; jwtToken changes only in
\* loginAndGetToken, config only in loadConfig, and the fetched sequence not at
\* all once fetched; every push request is a POST to
\* <push_url>?invoice_number=<id of its record> whose Authorization header is
\* "Bearer " and the token the login answered with.
C10_TokenAndSettingsFramed ==
    /\ [](/\ Len(loginRequests) <= 1
          /\ pc = "login" => loginRequests = << >>
          /\ \A k \in 1..Len(pushRequests) :
                /\ pushRequests[k].method = "POST"
                /\ pushRequests[k].Authorization =
                      <<"Bearer ">> \o AccessToken(loginResp.body)
                /\ \E j \in 1..idx :
                      pushRequests[k].url =
                         config.API.PushURL \o <<"?invoice_number=">>
                            \o transactions[j].InvoiceID)
    /\ [][/\ pc # "login" => jwtToken' = jwtToken
          /\ pc # "loadConfig" => config' = config
          /\ outcome["getTransactionsFromDB"] = "ok" => transactions' = transactions
          /\ pc = "pushDo" =>
                pushRequests' = Append(pushRequests,
                    [method |-> "POST",
                     url |-> config.API.PushURL \o <<"?invoice_number=">>
                                \o transactions[idx].InvoiceID,
                     Authorization |-> <<"Bearer ">> \o jwtToken])]_vars

\* two requests sent for two different records with the token of the login
C10_Witness ==
    /\ Len(pushRequests) = 2
    /\ pushRequests[1].url # pushRequests[2].url
    /\ jwtToken \in Tokens
    /\ pushRequests[2].Authorization = <<"Bearer ">> \o jwtToken

====
